---------------------------- MODULE Spec2Model ----------------------------
(***************************************************************************)
(* A model of src/src/source/character.ts: the Character aggregator of a   *)
(* status-effect system (construction, teardown, effect attachment, the    *)
(* recomputation of the Humanoid's movement properties, the copy-on-read   *)
(* accessors and the observing side's reconciliation against the store).   *)
(*                                                                         *)
(* Every handler of the source is one atomic action: the source runs on    *)
(* one thread and delivers signals synchronously in the firing call.       *)
(* JumpHeight is kept in tenths (7.2 is 72) so that every number is an     *)
(* integer.  A Map iterates in insertion order and is kept as a sequence.  *)
(***************************************************************************)
EXTENDS Integers, Sequences, FiniteSets, TLC

\* ------------------------------------------------------------------ bounds
\* The number of Character objects a behaviour constructs.
MaxChars == 2
\* The number of StatusEffect objects a behaviour creates.
MaxEffects == 2
\* The number of statuses one recomputation pass of SpecMerge iterates.
MaxStatuses == 3

Chars == 1..MaxChars
Effs == 1..MaxEffects

\* ------------------------------------------------------- the environment
\* Entity handles: two rigs own a Humanoid, the part owns none.
Rigs == {"rig1", "rig2"}
Entities == Rigs \cup {"part"}
FindFirstChildOfClass(e) == e \in Rigs

\* Effect ids, the class names a snapshot's StatusData may carry, and the
\* class names GetRegisteredStatusEffectConstructor resolves.
Ids == {"x", "y"}
ClassNames == {"Stun", "Ghost"}
Registered == {"Stun"}
ServerClass == "Stun"

PropNames == {"WalkSpeed", "JumpPower", "AutoRotate", "JumpHeight"}
NumericProps == {"WalkSpeed", "JumpPower", "JumpHeight"}

InitialDefaultsProps ==
    [WalkSpeed |-> 16, JumpPower |-> 100, AutoRotate |-> TRUE, JumpHeight |-> 72]

\* Another full property record: what a caller hands to SetDefaultProps, or
\* what a Humanoid holds before any Character touches it.
AltProps ==
    [WalkSpeed |-> 30, JumpPower |-> 50, AutoRotate |-> FALSE, JumpHeight |-> 72]

\* ----------------------------------------------------------- humanoid data
\* The humanoid data an effect may expose, by name; "undefined" is an effect
\* that exposes none.
HumanoidDataOf(n) ==
    CASE n = "SetP1"  -> [Mode |-> "Set", Priority |-> 1, Props |-> [WalkSpeed |-> 10]]
      [] n = "SetP5"  -> [Mode |-> "Set", Priority |-> 5, Props |-> [WalkSpeed |-> 20]]
      [] n = "SetP3"  -> [Mode |-> "Set", Priority |-> 3, Props |-> [WalkSpeed |-> 12]]
      [] n = "SetP0"  -> [Mode |-> "Set", Priority |-> 0, Props |-> [WalkSpeed |-> 8]]
      [] n = "SetN1"  -> [Mode |-> "Set", Priority |-> -1, Props |-> [WalkSpeed |-> 6]]
      [] n = "IncP1"  -> [Mode |-> "Increment", Priority |-> 1, Props |-> [WalkSpeed |-> 5]]
      [] n = "IncP2"  -> [Mode |-> "Increment", Priority |-> 2, Props |-> [WalkSpeed |-> 3]]
      [] n = "IncP10" -> [Mode |-> "Increment", Priority |-> 10,
                          Props |-> [WalkSpeed |-> 4, AutoRotate |-> FALSE]]

\* The data the lifecycle specification attaches, and the data one pass of
\* the merge is checked on.
DataNames == {"SetP1", "SetP5", "IncP1", "IncP2"}
MergeDataNames ==
    {"SetP1", "SetP5", "SetP3", "SetP0", "SetN1", "IncP1", "IncP2", "IncP10"}
Undefined == "undefined"

\* --------------------------------------------------------------- the merge
\* previousSetMPriority: << >> is undefined, <<p>> the number p.
Unset == << >>
\* JavaScript truthiness of number | undefined, which !x tests: undefined
\* and 0 are falsy.
Truthy(x) == x # Unset /\ x[1] # 0

IncPriorityList0 == [p \in PropNames |-> 0]

LoopStart(defaults) ==
    [propsToApply |-> defaults,
     incPriorityList |-> IncPriorityList0,
     previousSetMPriority |-> Unset]

\* One iteration of statuses.forEach for a status whose data is hd.
LoopBody(acc, hd) ==
    LET has(p) == p \in DOMAIN hd.Props
        prev == acc.previousSetMPriority
    IN  IF hd.Mode = "Increment" /\ ~Truthy(prev)
        THEN [acc EXCEPT
                !.propsToApply = [p \in PropNames |->
                    IF ~has(p) THEN acc.propsToApply[p]
                    ELSE IF p \in NumericProps
                         THEN hd.Props[p] + acc.propsToApply[p]
                         ELSE IF hd.Priority > acc.incPriorityList[p]
                              THEN hd.Props[p]
                              ELSE acc.propsToApply[p]],
                !.incPriorityList = [p \in PropNames |->
                    IF has(p) /\ p \notin NumericProps
                       /\ hd.Priority > acc.incPriorityList[p]
                    THEN hd.Priority
                    ELSE acc.incPriorityList[p]]]
        ELSE IF hd.Mode = "Set" /\ (~Truthy(prev) \/ hd.Priority > prev[1])
        THEN [acc EXCEPT
                !.previousSetMPriority = <<hd.Priority>>,
                !.propsToApply = [p \in PropNames |->
                    IF has(p) THEN hd.Props[p] ELSE acc.propsToApply[p]]]
        ELSE acc

\* statuses.forEach over a sequence of data names; a status whose
\* GetHumanoidData() is undefined returns at once.
RECURSIVE MergeLoop(_, _)
MergeLoop(acc, datas) ==
    IF datas = << >> THEN acc
    ELSE MergeLoop(IF Head(datas) = Undefined THEN acc
                   ELSE LoopBody(acc, HumanoidDataOf(Head(datas))),
                   Tail(datas))


\* ------------------------------------------------------------------ state
VARIABLES
    isClient,        \* RunService.IsClient(); IsServer() is its negation
    handler,         \* getActiveHandler() is set
    mapHeap,         \* the Map objects: "charMap" is Character.currentCharMap
    heldMap,         \* the Map a caller of GetCharacterMap holds
    propsHeap,       \* the property records, by reference
    heldProps,       \* the record a caller of GetDefaultsProps holds
    charState,       \* per Character: "none", "live", "destroyed"
    Instance,        \* per Character: this.Instance
    defaultsProps,   \* per Character: the reference this.defaultsProps holds
    statusEffects,   \* per Character: the id -> effect Map, in insertion order
    subscribed,      \* per Character: the store subscription is connected
    humanoid,        \* per rig: the Humanoid's four live properties
    effState,        \* per effect: "none", "live", "destroyed"
    effId,           \* per effect: GetId()
    effData,         \* per effect: the name of GetHumanoidData(), or Undefined
    conn,            \* per effect: the Character its HumanoidDataChanged calls
    once,            \* per effect: the Character whose Destroyed.Once handler waits
    store,           \* rootProducer: per entity the CharacterData, or absent
    listeners,       \* the listeners callers connected to the signals
    trace,           \* what the last operation fired, wrote and raised, in order
    mStatuses,       \* SpecMerge: the data of the statuses of one pass
    mIdx,            \* SpecMerge: how many of them forEach has visited
    mAcc             \* SpecMerge: propsToApply, incPriorityList, previousSetMPriority

lifeVars ==
    <<mapHeap, heldMap, propsHeap, heldProps, charState, Instance, defaultsProps,
      statusEffects, subscribed, humanoid, effState, effId, effData, conn, once,
      store, listeners, trace>>
mergeVars == <<mStatuses, mIdx, mAcc>>
vars == <<isClient, handler, lifeVars, mergeVars>>

\* References to property records: the object literal of each Character's
\* field initializer, two records callers and snapshots supply, and the
\* record GetDefaultsProps returns.
OwnRef(c) == <<"own", c>>
ExtRefs == {<<"ext", 1>>, <<"ext", 2>>}
RetRef == <<"ret", 0>>
NoRef == <<"none", 0>>
PropRefs == {OwnRef(c) : c \in Chars} \cup ExtRefs \cup {RetRef}

NoChar == 0
EmptyMap == [e \in Entities |-> NoChar]

\* No listener is connected: none to the class-level CharacterDestroyed
\* signal, and per Character none to its Destroyed signal and none to its
\* StatusEffectAdded signal.
NoListeners ==
    [CharacterDestroyed |-> FALSE,
     Destroyed |-> [c \in Chars |-> FALSE],
     StatusEffectAdded |-> [c \in Chars |-> FALSE]]

NoData == [present |-> FALSE, statusEffects |-> << >>, defaultProps |-> NoRef]

\* The state the handlers read and write, as one record.
Cur ==
    [mapHeap |-> mapHeap, heldMap |-> heldMap, propsHeap |-> propsHeap,
     heldProps |-> heldProps, charState |-> charState, Instance |-> Instance,
     defaultsProps |-> defaultsProps, statusEffects |-> statusEffects,
     subscribed |-> subscribed, humanoid |-> humanoid, effState |-> effState,
     effId |-> effId, effData |-> effData, conn |-> conn, once |-> once,
     store |-> store, listeners |-> listeners, trace |-> << >>]

Commit(W) ==
    /\ mapHeap' = W.mapHeap
    /\ heldMap' = W.heldMap
    /\ propsHeap' = W.propsHeap
    /\ heldProps' = W.heldProps
    /\ charState' = W.charState
    /\ Instance' = W.Instance
    /\ defaultsProps' = W.defaultsProps
    /\ statusEffects' = W.statusEffects
    /\ subscribed' = W.subscribed
    /\ humanoid' = W.humanoid
    /\ effState' = W.effState
    /\ effId' = W.effId
    /\ effData' = W.effData
    /\ conn' = W.conn
    /\ once' = W.once
    /\ store' = W.store
    /\ listeners' = W.listeners
    /\ trace' = W.trace
    /\ UNCHANGED <<isClient, handler, mergeVars>>

\* The ids in this.statusEffects of Character c.
MapIds(W, c) == {W.effId[W.statusEffects[c][i]] : i \in 1..Len(W.statusEffects[c])}

\* What an operation fires, writes or raises, the Character it is about and
\* the ids that Character's effect Map holds at that moment.
Ev(tag, c) == [ev |-> tag, c |-> c, ids |-> {}]
Log(W, tag, c) ==
    [W EXCEPT !.trace =
        Append(@, [ev |-> tag, c |-> c,
                   ids |-> IF c \in Chars THEN MapIds(W, c) ELSE {}])]

\* Signal.Fire: the signal fires, and the listener connected to it, if any,
\* is invoked.
Heard(tag) ==
    CASE tag = "CharacterDestroyed" -> "heard:CharacterDestroyed"
      [] tag = "Destroyed" -> "heard:Destroyed"
      [] tag = "StatusEffectAdded" -> "heard:StatusEffectAdded"

Fire(W, tag, c, connected) ==
    IF connected THEN Log(Log(W, tag, c), Heard(tag), c) ELSE Log(W, tag, c)

\* logError raises: the call it is made in ends there.
logError(W, reason) == Log(W, reason, 0)
Raised(W) == Len(W.trace) > 0 /\ W.trace[Len(W.trace)].ev \in
    {"error:client", "error:duplicate", "error:handler", "error:humanoid",
     "error:registry"}

currentCharMap == mapHeap["charMap"]

\* table.clone: a new table with the same entries.
TableClone(t) == t

\* ------------------------------------------------------ Map operations
MapHas(W, c, id) == id \in MapIds(W, c)

\* Map.set: an id already present keeps its place and gets the new effect.
MapSet(W, c, id, f) ==
    LET m == W.statusEffects[c]
    IN  IF MapHas(W, c, id)
        THEN [i \in 1..Len(m) |-> IF W.effId[m[i]] = id THEN f ELSE m[i]]
        ELSE Append(m, f)

MapDelete(W, c, id) ==
    LET m == W.statusEffects[c]
        keep(g) == W.effId[g] # id
    IN  SelectSeq(m, keep)

\* -------------------------------------------------- updateHumanoidProps
\* Line 85: Status.GetHumanoidData() ?? statuses.push(Status) pushes the
\* status when the left operand is undefined.
PushedMutant(data) == data # Undefined
Pushed(data) == data = Undefined

statusesOf(W, c) ==
    LET pushed(f) == Pushed(W.effData[f])
    IN  SelectSeq(W.statusEffects[c], pushed)

updateHumanoidProps(W, c) ==
    LET statuses == statusesOf(W, c)
        datas == [i \in 1..Len(statuses) |-> W.effData[statuses[i]]]
        acc == MergeLoop(LoopStart(TableClone(W.propsHeap[W.defaultsProps[c]])), datas)
        W1 == Log(W, "updateHumanoidProps", c)
    IN  IF statuses = << >> THEN W1
        ELSE Log([W1 EXCEPT !.humanoid[W.Instance[c]] = acc.propsToApply],
                 "Humanoid", c)

\* ------------------------------------------------------------ _packData
\* Status._packData() of an effect created on this process carries its
\* class name; the reference of defaultsProps is passed on as it is.
packData(W, c) ==
    [present |-> TRUE,
     statusEffects |-> [i \in 1..Len(W.statusEffects[c]) |->
                          [id |-> W.effId[W.statusEffects[c][i]],
                           className |-> ServerClass]],
     defaultProps |-> W.defaultsProps[c]]

\* ------------------------------------------------------------ the store
setCharacterData(W, e, data) ==
    Log([W EXCEPT !.store[e] = data], "setCharacterData", 0)

\* A patch of an entity the store holds no data for changes nothing.
patchCharacterData(W, e, ref) ==
    Log(IF W.store[e].present THEN [W EXCEPT !.store[e].defaultProps = ref] ELSE W,
        "patchCharacterData", 0)

deleteCharacterData(W, e) ==
    Log([W EXCEPT !.store[e] = NoData], "deleteCharacterData", 0)

\* ------------------------------------------------------ SetDefaultProps
SetDefaultProps(W, c, ref) ==
    LET W1 == [W EXCEPT !.defaultsProps[c] = ref]
    IN  IF ~isClient THEN patchCharacterData(W1, W.Instance[c], ref) ELSE W1

\* -------------------------------------------------------- the constructor
setupReplication_Client(W, c) ==
    IF ~isClient THEN W
    ELSE IF ~handler THEN W
    ELSE Log([W EXCEPT !.subscribed[c] = TRUE], "subscribe", c)

\* Line 51: the instance is registered already.
AlreadyRegisteredMutant(W, e) == FALSE
AlreadyRegistered(W, e) == W.mapHeap["charMap"][e] # NoChar

ConstructorMutant(W, c, e, flag) ==
    IF isClient /\ ~flag THEN logError(W, "error:client")
    ELSE IF AlreadyRegistered(W, e) THEN logError(W, "error:duplicate")
    ELSE IF ~handler THEN logError(W, "error:handler")
    ELSE
    LET W1 == [W EXCEPT !.charState[c] = "live",
                        !.Instance[c] = e,
                        !.defaultsProps[c] = OwnRef(c),
                        !.propsHeap[OwnRef(c)] = InitialDefaultsProps,
                        !.statusEffects[c] = << >>,
                        !.mapHeap["charMap"][e] = c]
        W2 == Log(W1, "CharacterCreated", c)
        W3 == setupReplication_Client(W2, c)
    IN  IF ~FindFirstChildOfClass(e) THEN logError(W3, "error:humanoid")
        ELSE LET W4 == updateHumanoidProps(W3, c)
             IN  IF ~isClient THEN setCharacterData(W4, e, packData(W4, c)) ELSE W4

\* new Character(e, canCreateClient) into the object c; flag says that
\* canCreateClient is Flags.CanCreateCharacterClient.
Constructor(W, c, e, flag) ==
    IF isClient /\ ~flag THEN logError(W, "error:client")
    ELSE IF AlreadyRegistered(W, e) THEN logError(W, "error:duplicate")
    ELSE IF ~handler THEN logError(W, "error:handler")
    ELSE IF ~FindFirstChildOfClass(e) THEN logError(W, "error:humanoid")
    ELSE
    LET W1 == [W EXCEPT !.charState[c] = "live",
                        !.Instance[c] = e,
                        !.defaultsProps[c] = OwnRef(c),
                        !.propsHeap[OwnRef(c)] = InitialDefaultsProps,
                        !.statusEffects[c] = << >>,
                        !.mapHeap["charMap"][e] = c]
        W2 == Log(W1, "CharacterCreated", c)
        W3 == setupReplication_Client(W2, c)
        W4 == updateHumanoidProps(W3, c)
    IN  IF ~isClient THEN setCharacterData(W4, e, packData(W4, c)) ELSE W4

\* ----------------------------------------------------------------- Destroy
\* janitor.Cleanup(): the connections and the subscription the janitor
\* holds are disconnected, and the signals it holds (DamageTaken and
\* Destroyed, lines 73-74) are destroyed, which disconnects their listeners.
Cleanup(W, c) ==
    [W EXCEPT !.subscribed[c] = FALSE,
              !.conn = [f \in Effs |-> IF W.conn[f] = c THEN NoChar ELSE W.conn[f]],
              !.listeners.Destroyed[c] = FALSE]

Destroy(W, c) ==
    LET W1 == Cleanup(W, c)
        W2 == [W1 EXCEPT !.mapHeap["charMap"][W.Instance[c]] = NoChar,
                         !.charState[c] = "destroyed"]
        W3 == IF ~isClient THEN deleteCharacterData(W2, W.Instance[c]) ELSE W2
        W4 == Fire(W3, "CharacterDestroyed", c, W3.listeners.CharacterDestroyed)
    IN  Fire(W4, "Destroyed", c, W4.listeners.Destroyed[c])

\* -------------------------------------------------------------- _addStatus
\* The handler Status.Destroyed.Once registers (lines 149-154).
OnStatusDestroyed(W, c, f) ==
    LET W1 == [W EXCEPT !.conn[f] = NoChar,
                        !.statusEffects[c] = MapDelete(W, c, W.effId[f])]
    IN  updateHumanoidProps(Log(W1, "StatusEffectRemoved", c), c)

\* ---------------------------------------------------- the effect's events
\* Status.Destroy(): the Destroyed event fires once, and so does the
\* handler waiting on it.
StatusDestroy(W, f) ==
    IF W.effState[f] # "live" THEN W
    ELSE LET W1 == [W EXCEPT !.effState[f] = "destroyed", !.once[f] = NoChar]
         IN  IF W.once[f] # NoChar THEN OnStatusDestroyed(W1, W.once[f], f) ELSE W1

addStatusMutant(W, c, f) ==
    LET W1 == Fire(W, "StatusEffectAdded", c, W.listeners.StatusEffectAdded[c])
        W2 == IF W.listeners.StatusEffectAdded[c] THEN StatusDestroy(W1, f) ELSE W1
        W3 == [W2 EXCEPT !.statusEffects[c] = MapSet(W2, c, W.effId[f], f)]
        W4 == updateHumanoidProps(W3, c)
    IN  [W4 EXCEPT !.conn[f] = c, !.once[f] = c]

\* _addStatus (lines 140-155).  A listener connected to StatusEffectAdded that
\* destroys the effect it is given does so while the signal fires, before
\* line 149 registers the handler of the effect's Destroyed event.
addStatus(W, c, f) ==
    LET W1 == [W EXCEPT !.statusEffects[c] = MapSet(W, c, W.effId[f], f)]
        W2 == Fire(W1, "StatusEffectAdded", c, W1.listeners.StatusEffectAdded[c])
        W3 == IF W1.listeners.StatusEffectAdded[c] THEN StatusDestroy(W2, f) ELSE W2
        W4 == updateHumanoidProps(W3, c)
    IN  [W4 EXCEPT !.conn[f] = c, !.once[f] = c]

\* The effect's humanoid data changes and HumanoidDataChanged fires.
HumanoidDataChanged(W, f, data) ==
    LET W1 == [W EXCEPT !.effData[f] = data]
    IN  IF W.conn[f] # NoChar THEN updateHumanoidProps(W1, W.conn[f]) ELSE W1

\* ------------------------------------------------ setupReplication_Client
FreeEffs(W) == {f \in Effs : W.effState[f] = "none"}
NextEff(W) == CHOOSE f \in FreeEffs(W) : \A g \in FreeEffs(W) : f <= g

\* new constructor(this, {flag: CanAssignCustomId, data: Id}): a new effect
\* of Character c with the id given, which exposes no humanoid data yet.  No
\* attach notification fires (section 4.2 step 2), and the effect's own
\* destruction handler, the one of lines 149-154, waits for its Destroyed
\* event (section 4.2 step 3).  With NoChar for c: an effect a caller hands
\* to _addStatus, which registers that handler itself (line 149).
NewStatus(W, c, f, id, data) ==
    [W EXCEPT !.effState[f] = "live", !.effId[f] = id, !.effData[f] = data,
              !.conn[f] = NoChar, !.once[f] = c]

processStatusAdditionMutant(W, c, entry) ==
    LET f == NextEff(W)
        W1 == NewStatus(W, c, f, entry.id, Undefined)
    IN  [W1 EXCEPT !.statusEffects[c] = MapSet(W1, c, entry.id, f)]

processStatusAddition(W, c, entry) ==
    IF entry.className \notin Registered THEN logError(W, "error:registry")
    ELSE LET f == NextEff(W)
             W1 == NewStatus(W, c, f, entry.id, Undefined)
         IN  [W1 EXCEPT !.statusEffects[c] = MapSet(W1, c, entry.id, f)]

\* CharacterData.statusEffects.forEach (lines 195-199), until an error.
RECURSIVE AddMissing(_, _, _)
AddMissing(W, c, entries) ==
    IF entries = << >> \/ Raised(W) THEN W
    ELSE AddMissing(IF ~MapHas(W, c, Head(entries).id)
                    THEN processStatusAddition(W, c, Head(entries))
                    ELSE W,
                    c, Tail(entries))

SnapshotIds(data) == {data.statusEffects[i].id : i \in 1..Len(data.statusEffects)}

\* this.statusEffects.forEach (lines 201-205) over the effects fs.
RECURSIVE DestroyStaleAllMutant(_, _, _)
DestroyStaleAllMutant(W, fs, data) ==
    IF fs = << >> THEN W
    ELSE DestroyStaleAllMutant(StatusDestroy(W, Head(fs)), Tail(fs), data)

RECURSIVE DestroyStaleMutant(_, _, _)
DestroyStaleMutant(W, fs, data) ==
    IF fs = << >> THEN W
    ELSE DestroyStaleMutant(IF W.effId[Head(fs)] \in SnapshotIds(data)
                            THEN StatusDestroy(W, Head(fs))
                            ELSE W,
                            Tail(fs), data)

RECURSIVE DestroyStale(_, _, _)
DestroyStale(W, fs, data) ==
    IF fs = << >> THEN W
    ELSE DestroyStale(IF W.effId[Head(fs)] \notin SnapshotIds(data)
                      THEN StatusDestroy(W, Head(fs))
                      ELSE W,
                      Tail(fs), data)

\* The callback given to rootProducer.subscribe (lines 192-208).
OnCharacterData(W, c, data) ==
    IF ~data.present THEN W
    ELSE LET W1 == AddMissing(W, c, data.statusEffects)
             W2 == DestroyStale(W1, W1.statusEffects[c], data)
         IN  IF Raised(W1) THEN W1
             ELSE IF data.defaultProps # W2.defaultsProps[c]
                  THEN SetDefaultProps(W2, c, data.defaultProps)
                  ELSE W2

\* The store's data of e changes to data: the callbacks subscribed to it
\* run in turn, until one raises.
RECURSIVE Notify(_, _, _)
Notify(W, cs, data) ==
    IF cs = << >> \/ Raised(W) THEN W
    ELSE Notify(OnCharacterData(W, Head(cs), data), Tail(cs), data)

Subscribers(W, e) ==
    LET sub(c) == W.subscribed[c] /\ W.Instance[c] = e
    IN  SelectSeq([c \in Chars |-> c], sub)

\* ------------------------------------------------------------ accessors
GetDefaultsPropsMutant(W, c) == [W EXCEPT !.heldProps = W.defaultsProps[c]]
GetDefaultsProps(W, c) ==
    [W EXCEPT !.propsHeap[RetRef] = TableClone(W.propsHeap[W.defaultsProps[c]]),
              !.heldProps = RetRef]

GetCharacterMapMutant(W) == [W EXCEPT !.heldMap = "charMap"]
GetCharacterMap(W) ==
    [W EXCEPT !.mapHeap["ret"] = TableClone(W.mapHeap["charMap"]),
              !.heldMap = "ret"]

GetCharacterFromInstance(W, e) == W.mapHeap["charMap"][e]

\* ---------------------------------------------------------- initial state
\* The CharacterData a store update may carry on the observing side.
SnapshotMaps ==
    {<< >>,
     <<[id |-> "x", className |-> "Stun"]>>,
     <<[id |-> "x", className |-> "Stun"], [id |-> "y", className |-> "Stun"]>>,
     <<[id |-> "y", className |-> "Ghost"]>>,
     <<[id |-> "x", className |-> "Stun"], [id |-> "y", className |-> "Ghost"]>>}
Snapshots ==
    {NoData} \cup
    {[present |-> TRUE, statusEffects |-> m, defaultProps |-> r] :
        m \in SnapshotMaps, r \in ExtRefs}

MergeIdle ==
    /\ mStatuses = << >>
    /\ mIdx = 0
    /\ mAcc = LoopStart(InitialDefaultsProps)

\* The state before any Character is constructed, every Humanoid holding h.
W0(h) ==
    [mapHeap |-> [r \in {"charMap", "ret"} |-> EmptyMap],
     heldMap |-> "none",
     propsHeap |-> [r \in PropRefs |->
                      IF r = <<"ext", 2>> THEN AltProps ELSE InitialDefaultsProps],
     heldProps |-> NoRef,
     charState |-> [c \in Chars |-> "none"],
     Instance |-> [c \in Chars |-> "part"],
     defaultsProps |-> [c \in Chars |-> OwnRef(c)],
     statusEffects |-> [c \in Chars |-> << >>],
     subscribed |-> [c \in Chars |-> FALSE],
     humanoid |-> [r \in Rigs |-> h],
     effState |-> [f \in Effs |-> "none"],
     effId |-> [f \in Effs |-> "x"],
     effData |-> [f \in Effs |-> Undefined],
     conn |-> [f \in Effs |-> NoChar],
     once |-> [f \in Effs |-> NoChar],
     store |-> [e \in Entities |-> NoData],
     listeners |-> NoListeners,
     trace |-> << >>]

\* What a Humanoid holds before any Character writes to it.
HumanoidStarts == {InitialDefaultsProps, AltProps}

LifeIs(W) ==
    /\ mapHeap = W.mapHeap
    /\ heldMap = W.heldMap
    /\ propsHeap = W.propsHeap
    /\ heldProps = W.heldProps
    /\ charState = W.charState
    /\ Instance = W.Instance
    /\ defaultsProps = W.defaultsProps
    /\ statusEffects = W.statusEffects
    /\ subscribed = W.subscribed
    /\ humanoid = W.humanoid
    /\ effState = W.effState
    /\ effId = W.effId
    /\ effData = W.effData
    /\ conn = W.conn
    /\ once = W.once
    /\ store = W.store
    /\ listeners = W.listeners
    /\ trace = W.trace

Init ==
    /\ isClient \in BOOLEAN
    /\ handler = FALSE
    /\ \E h \in HumanoidStarts : LifeIs(W0(h))
    /\ MergeIdle

\* ---------------------------------------------------------------- actions
\* An effect object nothing refers to any more is forgotten: its slot is
\* free for the next effect created.
Referenced(W, f) ==
    \/ W.effState[f] = "live"
    \/ \E c \in Chars : \E i \in 1..Len(W.statusEffects[c]) : W.statusEffects[c][i] = f

Forget(W) ==
    LET gone(f) == ~Referenced(W, f)
    IN  [W EXCEPT
           !.effState = [f \in Effs |-> IF gone(f) THEN "none" ELSE W.effState[f]],
           !.effId = [f \in Effs |-> IF gone(f) THEN "x" ELSE W.effId[f]],
           !.effData = [f \in Effs |-> IF gone(f) THEN Undefined ELSE W.effData[f]],
           !.conn = [f \in Effs |-> IF gone(f) THEN NoChar ELSE W.conn[f]],
           !.once = [f \in Effs |-> IF gone(f) THEN NoChar ELSE W.once[f]]]

Made == {c \in Chars : charState[c] # "none"}
FreeChars == Chars \ Made
NextChar == CHOOSE c \in FreeChars : \A d \in FreeChars : c <= d

\* The coordinating handler starts.
StartHandler ==
    /\ ~handler
    /\ handler' = TRUE
    /\ trace' = << >>
    /\ UNCHANGED <<isClient, mapHeap, heldMap, propsHeap, heldProps, charState,
                   Instance, defaultsProps, statusEffects, subscribed, humanoid,
                   effState, effId, effData, conn, once, store, listeners,
                   mergeVars>>

\* new Character(e) or new Character(e, Flags.CanCreateCharacterClient).
NewCharacter(e, flag) ==
    /\ FreeChars # {}
    /\ Commit(Forget(Constructor(Cur, NextChar, e, flag)))

\* c.Destroy(), also of a Character destroyed before.
DestroyCharacter(c) ==
    /\ c \in Made
    /\ Commit(Forget(Destroy(Cur, c)))

\* c._addStatus(Status) for a new effect with the id and humanoid data given.
AddStatus(c, id, data) ==
    /\ charState[c] = "live"
    /\ FreeEffs(Cur) # {}
    /\ ~MapHas(Cur, c, id)
    /\ LET f == NextEff(Cur)
       IN  Commit(Forget(addStatus(NewStatus(Cur, NoChar, f, id, data), c, f)))

\* Status.Destroy() of a live effect.
DestroyStatus(f) ==
    /\ effState[f] = "live"
    /\ Commit(Forget(StatusDestroy(Cur, f)))

\* A live effect sets other humanoid data.
ChangeHumanoidData(f, data) ==
    /\ effState[f] = "live"
    /\ data # effData[f]
    /\ Commit(Forget(HumanoidDataChanged(Cur, f, data)))

\* c.SetDefaultProps(Props) with a record of the caller's.
CallSetDefaultProps(c, ref) ==
    /\ charState[c] = "live"
    /\ Commit(Forget(SetDefaultProps(Cur, c, ref)))

\* The effects the callbacks of e would create for data.
Needed(e, data) ==
    LET cs == Subscribers(Cur, e)
        miss(c) == Cardinality(SnapshotIds(data) \ MapIds(Cur, c))
        RECURSIVE sum(_)
        sum(i) == IF i = 0 THEN 0 ELSE miss(cs[i]) + sum(i - 1)
    IN  sum(Len(cs))

\* On the observing side the store's data of e changes.
StoreChanged(e, data) ==
    /\ isClient
    /\ data # store[e]
    /\ Cardinality(FreeEffs(Cur)) >= Needed(e, data)
    /\ Commit(Forget(Notify([Cur EXCEPT !.store[e] = data], Subscribers(Cur, e), data)))

\* A caller connects a listener to the class-level CharacterDestroyed signal.
ConnectCharacterDestroyed ==
    /\ ~listeners.CharacterDestroyed
    /\ Commit([Cur EXCEPT !.listeners.CharacterDestroyed = TRUE])

\* A caller connects a listener to the Destroyed signal of a live Character.
ConnectDestroyed(c) ==
    /\ charState[c] = "live"
    /\ ~listeners.Destroyed[c]
    /\ Commit([Cur EXCEPT !.listeners.Destroyed[c] = TRUE])

\* A caller connects to the StatusEffectAdded signal of a live Character a
\* listener that destroys the effect it is given.
ConnectStatusEffectAdded(c) ==
    /\ charState[c] = "live"
    /\ ~listeners.StatusEffectAdded[c]
    /\ Commit([Cur EXCEPT !.listeners.StatusEffectAdded[c] = TRUE])

\* The entities the lifecycle specification constructs Characters over.
LifeEntities == {"rig1", "part"}
\* The record a caller hands to SetDefaultProps.
CallerRefs == {<<"ext", 2>>}
\* The humanoid data an attached effect changes to.
ChangedData == {Undefined, "IncP2"}

Next ==
    \/ StartHandler
    \/ \E e \in LifeEntities, flag \in BOOLEAN : NewCharacter(e, flag)
    \/ \E c \in Chars : DestroyCharacter(c)
    \/ \E c \in Chars, id \in Ids, data \in DataNames \cup {Undefined} :
          AddStatus(c, id, data)
    \/ \E f \in Effs : DestroyStatus(f)
    \/ \E f \in Effs, data \in ChangedData : ChangeHumanoidData(f, data)
    \/ \E c \in Chars, ref \in CallerRefs : CallSetDefaultProps(c, ref)

Spec == Init /\ [][Next]_vars

\* ------------------------------------------------- the observing side
\* The entity whose data the store of the observing side receives.
StoreEntities == {"rig1"}

NextClient ==
    \/ StartHandler
    \/ \E e \in LifeEntities, flag \in BOOLEAN : NewCharacter(e, flag)
    \/ \E c \in Chars : DestroyCharacter(c)
    \/ \E f \in Effs : DestroyStatus(f)
    \/ \E e \in StoreEntities, data \in Snapshots : StoreChanged(e, data)

InitClient ==
    /\ isClient = TRUE
    /\ handler = FALSE
    /\ \E h \in HumanoidStarts : LifeIs(W0(h))
    /\ MergeIdle

SpecClient == InitClient /\ [][NextClient]_vars

\* ------------------------------------------- two Characters side by side
\* Two Characters of the authoritative side over two rigs whose Humanoids
\* start alike, and from there only effects attached and destroyed.
PairStart(h) ==
    [Constructor(Constructor(W0(h), 1, "rig1", FALSE), 2, "rig2", FALSE)
        EXCEPT !.trace = << >>]

InitPair ==
    /\ isClient = FALSE
    /\ handler = TRUE
    /\ \E h \in HumanoidStarts : LifeIs(PairStart(h))
    /\ MergeIdle

NextPair ==
    \/ \E c \in Chars, id \in Ids, data \in DataNames \cup {Undefined} :
          AddStatus(c, id, data)
    \/ \E f \in Effs : DestroyStatus(f)

SpecPair == InitPair /\ [][NextPair]_vars

\* --------------------------------------------------------- the accessors
\* The record GetDefaultsProps returned last is the caller's until the
\* caller hands it to SetDefaultProps.
RetInUse ==
    \/ \E c \in Chars : defaultsProps[c] = RetRef
    \/ \E e \in Entities : store[e].defaultProps = RetRef

\* c.GetDefaultsProps(): the caller keeps the record returned.
CallGetDefaultsProps(c) ==
    /\ c \in Made
    /\ ~RetInUse
    /\ Commit(GetDefaultsProps(Cur, c))

\* Character.GetCharacterMap(): the caller keeps the Map returned.
CallGetCharacterMap ==
    Commit(GetCharacterMap(Cur))

\* What a caller writes into the record it holds.
FieldWrites == {<<"WalkSpeed", 0>>}

\* The caller changes a field of the record it holds.
MutateHeldProps(p, v) ==
    /\ heldProps # NoRef
    /\ Commit([Cur EXCEPT !.propsHeap[heldProps][p] = v])

\* The caller sets, replaces or (with NoChar) removes an entry of the Map it
\* holds.
MutateHeldMap(e, c) ==
    /\ heldMap # "none"
    /\ Commit([Cur EXCEPT !.mapHeap[heldMap][e] = c])

\* c.SetDefaultProps(Props) with the record the caller holds.
CallSetDefaultPropsHeld(c) ==
    /\ heldProps # NoRef
    /\ CallSetDefaultProps(c, heldProps)

NextAccess ==
    \/ StartHandler
    \/ \E e \in LifeEntities, flag \in BOOLEAN : NewCharacter(e, flag)
    \/ \E c \in Chars : DestroyCharacter(c)
    \/ \E c \in Chars, ref \in CallerRefs : CallSetDefaultProps(c, ref)
    \/ \E c \in Chars : CallSetDefaultPropsHeld(c)
    \/ \E c \in Chars : CallGetDefaultsProps(c)
    \/ CallGetCharacterMap
    \/ \E w \in FieldWrites : MutateHeldProps(w[1], w[2])
    \/ \E e \in LifeEntities, c \in Chars \cup {NoChar} : MutateHeldMap(e, c)

SpecAccess == Init /\ [][NextAccess]_vars

\* ------------------------------------------------ one pass of the merge
\* Lines 88-118 on statuses that all expose humanoid data, one iteration of
\* statuses.forEach a step.
StatusLists == UNION {[1..n -> MergeDataNames] : n \in 1..MaxStatuses}

InitMerge ==
    /\ isClient = FALSE
    /\ handler = FALSE
    /\ LifeIs(W0(InitialDefaultsProps))
    /\ mStatuses \in StatusLists
    /\ mIdx = 0
    /\ mAcc = LoopStart(TableClone(InitialDefaultsProps))

MergeStep ==
    /\ mIdx < Len(mStatuses)
    /\ mAcc' = LoopBody(mAcc, HumanoidDataOf(mStatuses[mIdx + 1]))
    /\ mIdx' = mIdx + 1
    /\ UNCHANGED <<isClient, handler, lifeVars, mStatuses>>

NextMerge == MergeStep

SpecMerge == InitMerge /\ [][NextMerge]_vars

\* The lifecycle with listeners on the destroyed signals.
NextSignals ==
    \/ StartHandler
    \/ \E e \in LifeEntities, flag \in BOOLEAN : NewCharacter(e, flag)
    \/ \E c \in Chars : DestroyCharacter(c)
    \/ \E c \in Chars, id \in Ids, data \in {Undefined} : AddStatus(c, id, data)
    \/ \E f \in Effs : DestroyStatus(f)
    \/ ConnectCharacterDestroyed
    \/ \E c \in Chars : ConnectDestroyed(c)
    \/ \E c \in Chars : ConnectStatusEffectAdded(c)

SpecSignals == Init /\ [][NextSignals]_vars

\* ------------------------------------------------------ what claims read
\* The state as the handlers see it, the last operation's trace included.
Now == [Cur EXCEPT !.trace = trace]

\* The ids in this.statusEffects, the baseline record and the Humanoid's
\* live properties of Character c.
IdsOf(c) == MapIds(Now, c)
Baseline(c) == propsHeap[defaultsProps[c]]
LiveProps(c) == humanoid[Instance[c]]

\* The active effects of c: their ids with their humanoid data.
ActiveSet(c) ==
    {<<effId[statusEffects[c][i]], effData[statusEffects[c][i]]>> :
        i \in 1..Len(statusEffects[c])}

\* The humanoid data of the active effects of c, in iteration order.
ActiveData(c) == [i \in 1..Len(statusEffects[c]) |-> effData[statusEffects[c][i]]]

\* The merge of section 4.1 over the active effects that expose humanoid
\* data: the loop of lines 96-118 from a copy of the baseline.
Merged(c) == MergeLoop(LoopStart(Baseline(c)), ActiveData(c)).propsToApply

\* The last operation ran updateHumanoidProps of c.
Recomputed(c) ==
    \E i \in 1..Len(trace) : trace[i].ev = "updateHumanoidProps" /\ trace[i].c = c

\* Every effect in the Map of c was attached through _addStatus and is live.
AllAttached(c) ==
    \A i \in 1..Len(statusEffects[c]) :
        /\ once[statusEffects[c][i]] = c
        /\ effState[statusEffects[c][i]] = "live"

\* ------------------------------------------------------------------ C1
\* C1: history independence of the merge.  Two Characters whose Humanoids
\* started alike and that now hold the same active effects (ids and humanoid
\* data) over the same baseline, whatever sequences of attach and effect
\* destruction led each there, have the same live Humanoid properties.
C1_HistoryIndependence ==
    (ActiveSet(1) = ActiveSet(2) /\ Baseline(1) = Baseline(2))
        => LiveProps(1) = LiveProps(2)

\* ------------------------------------------------------------------ C2
\* C2: higher Set priority wins.  When a live Character holds exactly two
\* attached Set-mode effects of different priorities that both override a
\* property, then after the recomputation of an attach the live value of
\* that property is the one of the effect with the higher priority, in
\* whichever order the two were attached.
C2_HigherSetPriorityWins ==
    \A c \in Chars : \A f, g \in Effs :
        ( /\ charState[c] = "live"
          /\ f # g
          /\ statusEffects[c] \in {<<f, g>>, <<g, f>>}
          /\ AllAttached(c)
          /\ Recomputed(c)
          /\ effData[f] # Undefined /\ effData[g] # Undefined
          /\ HumanoidDataOf(effData[f]).Mode = "Set"
          /\ HumanoidDataOf(effData[g]).Mode = "Set"
          /\ HumanoidDataOf(effData[f]).Priority < HumanoidDataOf(effData[g]).Priority )
        => \A p \in DOMAIN HumanoidDataOf(effData[f]).Props
                     \cap DOMAIN HumanoidDataOf(effData[g]).Props :
               LiveProps(c)[p] = HumanoidDataOf(effData[g]).Props[p]

\* ------------------------------------------------------------------ C3
\* The sum of the overrides of property p over the data names ds.
RECURSIVE SumOverrides(_, _)
SumOverrides(ds, p) ==
    IF ds = << >> THEN 0
    ELSE (IF p \in DOMAIN HumanoidDataOf(Head(ds)).Props
          THEN HumanoidDataOf(Head(ds)).Props[p] ELSE 0)
         + SumOverrides(Tail(ds), p)

\* C3: increments sum.  When every active effect of a live Character exposes
\* humanoid data in Increment mode, then after a recomputation each numeric
\* live property is the baseline value plus the sum of the effects'
\* overrides of it.
C3_IncrementsSum ==
    \A c \in Chars :
        ( /\ charState[c] = "live"
          /\ statusEffects[c] # << >>
          /\ AllAttached(c)
          /\ Recomputed(c)
          /\ \A i \in 1..Len(statusEffects[c]) :
                /\ ActiveData(c)[i] # Undefined
                /\ HumanoidDataOf(ActiveData(c)[i]).Mode = "Increment" )
        => \A p \in NumericProps :
               LiveProps(c)[p] = Baseline(c)[p] + SumOverrides(ActiveData(c), p)

C5_DestructionRemovesContribution ==
    [][ \A f \in Effs : \A c \in Chars :
          (DestroyStatus(f) /\ once[f] = c /\ charState[c] = "live")
          => /\ effId[f] \notin IdsOf(c)'
             /\ LiveProps(c)' = Merged(c)' ]_vars

\* ------------------------------------------------------------------ C6
\* C6: duplicate construction fails without side effects.  A construction
\* over an entity the global map holds already raises (nothing but the error
\* is in the trace: no CharacterCreated, no store write), and the global map,
\* every Character's state, effect Map and baseline, the Humanoids, the
\* effects and the store are as before.
C6_DuplicateConstructionFails ==
    [][ \A e \in Entities : \A flag \in BOOLEAN :
          (NewCharacter(e, flag) /\ currentCharMap[e] # NoChar)
          => /\ trace' \in {<<Ev("error:duplicate", 0)>>, <<Ev("error:client", 0)>>}
             /\ UNCHANGED <<mapHeap, propsHeap, charState, Instance, defaultsProps,
                            statusEffects, subscribed, humanoid, effState, effId,
                            effData, conn, once, store>> ]_vars

\* A second construction over a registered entity was attempted and raised
\* the duplicate error, the first Character still being registered.
C6_Witness ==
    /\ trace = <<Ev("error:duplicate", 0)>>
    /\ \E e \in Entities : currentCharMap[e] # NoChar /\ charState[currentCharMap[e]] = "live"

\* ------------------------------------------------------------------ C7
\* C7: single instance per entity.  Per entity at most one Character is
\* constructed and not destroyed, and the global map's entry of the entity is
\* that Character.
C7_SingleInstancePerEntity ==
    \A e \in Entities :
        LET live == {c \in Chars : charState[c] = "live" /\ Instance[c] = e}
        IN  /\ Cardinality(live) <= 1
            /\ \A c \in live : currentCharMap[e] = c

\* ------------------------------------------------------------------ C8
\* C8: reconciliation converges on the snapshot's id set.  After the
\* callbacks of a store change to a present snapshot whose class names are
\* all registered, the effect Map of every Character subscribed to the
\* entity holds exactly the ids of the snapshot.
C8_ReconciliationConverges ==
    [][ \A e \in StoreEntities : \A data \in Snapshots :
          ( /\ StoreChanged(e, data)
            /\ data.present
            /\ \A i \in 1..Len(data.statusEffects) :
                  data.statusEffects[i].className \in Registered )
          => \A c \in Chars :
                (subscribed[c] /\ Instance[c] = e) => IdsOf(c)' = SnapshotIds(data) ]_vars

\* A reconciliation cycle of a subscribed Character has just destroyed a
\* local effect the snapshot no longer holds, and the effect Map holds the
\* ids of the snapshot, "x" alone.
C8_Witness ==
    \E c \in Chars :
        /\ isClient /\ charState[c] = "live" /\ subscribed[c]
        /\ store[Instance[c]].present
        /\ SnapshotIds(store[Instance[c]]) = {"x"}
        /\ IdsOf(c) = {"x"}
        /\ \E i \in 1..Len(trace) :
              trace[i].ev = "StatusEffectRemoved" /\ trace[i].c = c

\* ------------------------------------------------------------------ C9
\* A caller changes the container it holds.
CallerMutates ==
    \/ \E w \in FieldWrites : MutateHeldProps(w[1], w[2])
    \/ \E e \in LifeEntities, c \in Chars \cup {NoChar} : MutateHeldMap(e, c)

\* The values the accessors read: the global map and every Character's
\* baseline record.
Internal == <<currentCharMap, [c \in Chars |-> Baseline(c)]>>

\* C9 as stated: no change a caller makes to the Map GetCharacterMap
\* returned or to the record GetDefaultsProps returned changes the global map
\* or a Character's baseline.
C9_CopyOnRead ==
    [][ CallerMutates => Internal' = Internal ]_vars

\* C9 as amended: the same, as long as the record GetDefaultsProps returned
\* has not been handed to SetDefaultProps, which keeps the reference it is
\* given.
C9_CopyOnReadUnlessHandedBack ==
    [][ (CallerMutates /\ ~RetInUse) => Internal' = Internal ]_vars

\* The caller holds a copy of the global map and a copy of a baseline, has
\* changed both, and no Character was handed the record.
C9_Witness ==
    /\ heldMap = "ret" /\ mapHeap["ret"] # currentCharMap
    /\ heldProps = RetRef /\ ~RetInUse
    /\ \E c \in Made : propsHeap[RetRef].WalkSpeed = 0 /\ Baseline(c).WalkSpeed # 0

\* ----------------------------------------------------------------- C10
\* C10: Destroy is idempotent.  A Destroy of a Character destroyed before
\* leaves the global map, the store and every other Character as they were.
C10_DestroyIdempotent ==
    [][ \A c \in Chars :
          (DestroyCharacter(c) /\ charState[c] = "destroyed")
          => /\ currentCharMap' = currentCharMap
             /\ store' = store
             /\ \A d \in Chars \ {c} :
                   /\ charState'[d] = charState[d]
                   /\ Instance'[d] = Instance[d]
                   /\ statusEffects'[d] = statusEffects[d]
                   /\ defaultsProps'[d] = defaultsProps[d]
                   /\ subscribed'[d] = subscribed[d] ]_vars

\* ----------------------------------------------------------------- C11
\* What the last operation logged with the tag given about Character c.
Logged(tag, c) == \E i \in 1..Len(trace) : trace[i].ev = tag /\ trace[i].c = c

\* C11: Destroy delivers both destroyed notifications.  In a Destroy of a
\* live Character the listener connected to CharacterDestroyed before the
\* call and the listener connected to the Character's Destroyed signal
\* before the call are both invoked.
C11_DestroyDeliversBoth ==
    [][ \A c \in Chars :
          (DestroyCharacter(c) /\ charState[c] = "live")
          => /\ listeners.CharacterDestroyed => Logged("heard:CharacterDestroyed", c)'
             /\ listeners.Destroyed[c] => Logged("heard:Destroyed", c)' ]_vars


\* ----------------------------------------------------------------- C12
\* C12: authoritative mirror.  On the authoritative side, after every
\* operation, the store's data of the entity of every live Character holds
\* the ids of the Character's effect Map and its baseline properties, as
\* _packData() gives them.
C12_AuthoritativeMirror ==
    ~isClient =>
        \A c \in Chars :
            charState[c] = "live" =>
                /\ store[Instance[c]].present
                /\ SnapshotIds(store[Instance[c]]) = SnapshotIds(packData(Now, c))
                /\ propsHeap[store[Instance[c]].defaultProps]
                       = propsHeap[packData(Now, c).defaultProps]

\* ----------------------------------------------------------------- C13
\* C13: no destroyed effect is retained.  After every operation, no effect
\* Map of a Character holds an effect whose Destroyed event has fired.
C13_NoDestroyedEffectRetained ==
    \A c \in Chars : \A i \in 1..Len(statusEffects[c]) :
        effState[statusEffects[c][i]] # "destroyed"

\* ----------------------------------------------------------------- C14
\* An event later than a Destroy: an effect is destroyed, an effect's
\* humanoid data changes, or a snapshot comes in.
LaterEvent ==
    \/ \E f \in Effs : DestroyStatus(f)
    \/ \E f \in Effs, data \in ChangedData : ChangeHumanoidData(f, data)
    \/ \E e \in StoreEntities, data \in Snapshots : StoreChanged(e, data)

\* C14: listeners are detached on teardown.  Once Destroy was called on a
\* Character, no later event changes its effect Map, fires its
\* StatusEffectAdded or StatusEffectRemoved signal, or makes it write the
\* Humanoid's properties.
C14_ListenersDetached ==
    [][ \A c \in Chars :
          (LaterEvent /\ charState[c] = "destroyed")
          => /\ statusEffects'[c] = statusEffects[c]
             /\ ~Logged("StatusEffectAdded", c)'
             /\ ~Logged("StatusEffectRemoved", c)'
             /\ ~Logged("Humanoid", c)' ]_vars

\* ----------------------------------------------------------------- C15
\* The ids the effect Map of c held at every StatusEffectAdded,
\* StatusEffectRemoved and recomputation of c in the last operation.
IdsWhenNotified(c) ==
    {trace[i].ids : i \in {j \in 1..Len(trace) :
        /\ trace[j].c = c
        /\ trace[j].ev \in {"StatusEffectAdded", "heard:StatusEffectAdded",
                            "StatusEffectRemoved", "updateHumanoidProps"}}}

\* C15: the Map is updated before notifications.  In an attach the effect's
\* id is in the Map whenever StatusEffectAdded fires or the recomputation
\* runs; in the destruction of an attached effect its id is out of the Map
\* whenever StatusEffectRemoved fires or the recomputation runs.
C15_MapUpdatedBeforeNotifications ==
    [][ /\ \A c \in Chars, id \in Ids, data \in DataNames \cup {Undefined} :
             AddStatus(c, id, data) => \A ids \in IdsWhenNotified(c)' : id \in ids
        /\ \A f \in Effs, c \in Chars :
             (DestroyStatus(f) /\ once[f] = c)
             => \A ids \in IdsWhenNotified(c)' : effId[f] \notin ids ]_vars

\* An attach has fired StatusEffectAdded and recomputed with the Map
\* holding two ids.
C15_Witness ==
    \E c \in Chars :
        /\ Logged("StatusEffectAdded", c) /\ Logged("updateHumanoidProps", c)
        /\ IdsWhenNotified(c) = {Ids}

\* ----------------------------------------------------------------- C16
\* The construction over e with the flag given violates a precondition other
\* than the duplicate one.
Violates(e, flag) ==
    \/ ~FindFirstChildOfClass(e)
    \/ ~handler
    \/ isClient /\ ~flag

C17_UnregisteredTypeIsFatal ==
    [][ \A e \in StoreEntities : \A data \in Snapshots :
          \A c \in Chars : \A i \in 1..Len(data.statusEffects) :
            ( /\ StoreChanged(e, data)
              /\ data.present
              /\ subscribed[c] /\ Instance[c] = e
              /\ data.statusEffects[i].className \notin Registered
              /\ data.statusEffects[i].id \notin IdsOf(c) )
            => /\ Logged("error:registry", 0)'
               /\ data.statusEffects[i].id \notin IdsOf(c)' ]_vars

\* A cycle has created the effect of the registered entry "x" and raised at
\* the unregistered entry "y".
C17_Witness ==
    \E c \in Chars :
        /\ isClient /\ subscribed[c] /\ charState[c] = "live"
        /\ SnapshotIds(store[Instance[c]]) = {"x", "y"}
        /\ IdsOf(c) = {"x"}
        /\ trace # << >> /\ trace[Len(trace)].ev = "error:registry"

\* ----------------------------------------------------------------- C18
\* Effect f is in the effect Map of Character c.
InMap(c, f) == \E i \in 1..Len(statusEffects[c]) : statusEffects[c][i] = f

\* C18: reconciliation leaves matched effects alone.  In a cycle for a
\* present snapshot, every effect of a subscribed Character whose id the
\* snapshot holds stays in the Map under its id, the same instance, not
\* destroyed; in a cycle for an absent snapshot the Character's effect Map
\* and baseline stay as they are.
C18_MatchedEffectsLeftAlone ==
    [][ \A e \in StoreEntities : \A data \in Snapshots : \A c \in Chars :
          (StoreChanged(e, data) /\ subscribed[c] /\ Instance[c] = e)
          => IF data.present
             THEN \A f \in Effs :
                    (InMap(c, f) /\ effId[f] \in SnapshotIds(data))
                    => /\ InMap(c, f)'
                       /\ effId'[f] = effId[f]
                       /\ effState'[f] = effState[f]
             ELSE /\ statusEffects'[c] = statusEffects[c]
                  /\ Baseline(c)' = Baseline(c)
                  /\ defaultsProps'[c] = defaultsProps[c] ]_vars

\* A cycle has destroyed the stale effect of a subscribed Character and kept
\* the live effect "x" the snapshot holds too.
C18_Witness ==
    \E c \in Chars : \E f \in Effs :
        /\ isClient /\ subscribed[c] /\ charState[c] = "live"
        /\ store[Instance[c]].present
        /\ SnapshotIds(store[Instance[c]]) = {"x"}
        /\ statusEffects[c] = <<f>>
        /\ effId[f] = "x" /\ effState[f] = "live"
        /\ Logged("StatusEffectRemoved", c)

C20_NoDataNoWrite ==
    [][ \A c \in Chars :
          (Recomputed(c)' /\ charState'[c] = "live")
          => IF \A f \in Effs : InMap(c, f)' => effData'[f] = Undefined
             THEN /\ ~Logged("Humanoid", c)'
                  /\ Baseline(c)' = Baseline(c)
             ELSE /\ Logged("Humanoid", c)'
                  /\ LiveProps(c)' = Merged(c)' ]_vars

==========================================================================
